---- MODULE Spec2Model ----
(***************************************************************************)
(* T2H backend: the job table and the processing pipeline.                 *)
(*   api.py                  upload_pdf, process_document, delete_job      *)
(*   services/processor.py   _update_job, process_document_task            *)
(*   services/diagram_converter.py  DiagramConverter                       *)
(*   services/export_service.py     ExportService.export_pdf               *)
(*   services/handwriting_engine.py HandwritingEngine._apply_imperfections *)
(*                                  HandwritingEngine._apply_smudges       *)
(*   services/layout_composer.py    LayoutComposer.compose_page            *)
(*   services/paper_renderer.py     PaperRenderer._draw_lined              *)
(* A run of process_document_task is cut into steps at its database        *)
(* commits and at its awaits; each step is one action.                     *)
(***************************************************************************)
EXTENDS Integers, Sequences, FiniteSets, TLC

\* ------------------------------------------------------------------ bounds
MaxRuns == 2           \* start-processing requests accepted per job
MaxPages == 2          \* Spec: pages of an uploaded document
MaxCrops == 1          \* Spec: diagrams cropped from one page
CachePages == 1        \* SpecCache: pages of the document
MaxDiagrams == 2       \* SpecCache: diagrams cropped from one page
RacePages == 1         \* SpecRace: pages of each document
RaceDiagrams == 1      \* SpecRace: diagrams cropped from one page
MaxPagesProgress == 40 \* SpecProgress: pages of the document
MaxWords == 2          \* SpecImperfections: words of the line
PageWidth == 3         \* SpecCompose: pixels of the page row
DiagramWidth == 2      \* SpecCompose: pixels of the diagram row
MaxHeight == 200       \* SpecLined: height of the paper, in pixels
CanvasWidth == 2       \* SpecSmudge: pixels of the text layer row
ServePages == 2        \* SpecServe: pages of the uploaded document

Jobs == {"j1", "j2"}
Hashes == {"h1"}
Configs == {"cfgA", "cfgB"}

\* ------------------------------------------------------------- JobStatus
UPLOADED == "uploaded"
PROCESSING == "processing"
COMPLETED == "completed"
FAILED == "failed"

Null == "null"

\* str(e) of an exception raised by a pipeline call
Error == "error"

VARIABLES
    jobs,          \* table jobs: job id -> row (DOMAIN = the rows present)
    uploads,       \* storage/uploads/<job>/original.pdf: job id -> document
    results,       \* storage/results/<job>: job id -> [previews, pdf]
    ids_used,      \* uuids handed out by upload_pdf
    run,           \* background tasks: job id -> sequence of run states
    blobs,         \* cache/diagrams/<hash>.png
    originals,     \* cache/diagrams/<hash>_original.png
    diagram_cache, \* table diagram_cache: sequence of rows
    api_key,       \* settings.GOOGLE_IMAGEN_API_KEY
    resp,          \* status code of the last HTTP response
    text,          \* _apply_imperfections: its argument, a list of characters
    imperfection_level, \* HandwritingEngine.imperfection_level, in 1/100
    words,         \* _apply_imperfections: words = text.split()
    word_idx,      \* _apply_imperfections: words the loop has taken
    segments,      \* _apply_imperfections: the list it builds
    composite,     \* compose_page: page, a row of RGBA pixels
    diagram,       \* compose_page: the diagram in hand, resized, and its x
    pasted,        \* compose_page: diagrams pasted so far
    paper_w,       \* _draw_lined: w
    paper_h,       \* _draw_lined: h
    line_spacing,  \* _draw_lined: spacing
    line_y,        \* _draw_lined: y
    rules,         \* _draw_lined: horizontal lines drawn so far
    canvas,        \* _apply_smudges: img_array as it was, a row of pixels
    smudged,       \* _apply_smudges: img_array
    num_smudges,   \* _apply_smudges: smudge spots still to apply
    promotion,     \* how the installed NumPy types uint8 + int
    served         \* the last download_result / get_preview: <<handler, job,
                   \* file sent (result: 1, preview: its page; refused: 0)>>

\* the job store and the diagram cache
store == <<jobs, uploads, results, ids_used, run, blobs, originals,
           diagram_cache, api_key, resp>>

\* the state of one call of HandwritingEngine._apply_imperfections
hw == <<text, imperfection_level, words, word_idx, segments>>

\* the state of one call of LayoutComposer.compose_page
cp == <<composite, diagram, pasted>>

\* the state of one call of PaperRenderer._draw_lined
dl == <<paper_w, paper_h, line_spacing, line_y, rules>>

\* the state of one call of HandwritingEngine._apply_smudges
sm == <<canvas, smudged, num_smudges, promotion>>

\* everything but the job store and the diagram cache
others == <<hw, cp, dl, sm, served>>

vars == <<jobs, uploads, results, ids_used, run, blobs, originals,
          diagram_cache, api_key, resp, hw, cp, dl, sm, served>>

\* ---------------------------------------------------------------- helpers
Range(s) == {s[i] : i \in 1..Len(s)}

SeqsUpTo(S, n) == UNION {[1..k -> S] : k \in 0..n}

\* A page of an uploaded PDF as the extractor sees it: images = the page
\* lists image regions; crops = the content hashes of the regions that
\* extract_diagram_images manages to crop.
PageKinds(maxd) ==
    {[images |-> FALSE, crops |-> <<>>]} \cup
    {[images |-> TRUE, crops |-> c] : c \in SeqsUpTo(Hashes, maxd)}

Documents(maxp, maxd) == UNION {[1..n -> PageKinds(maxd)] : n \in 1..maxp}

Stage(label, page) == [label |-> label, page |-> page]

\* Job(...) as upload_pdf leaves it (column defaults of models.Job)
NewJob(n) ==
    [status |-> UPLOADED, config |-> Null, num_pages |-> n, progress |-> 0,
     current_stage |-> Stage("", 0), upload_path |-> TRUE,
     result_path |-> Null, error_message |-> Null]

\* _update_job without "if job:", writing the columns to a row of its own
\* when the job has none
UpdateJob_Upsert(tbl, j, kw) ==
    LET row == IF j \in DOMAIN tbl THEN tbl[j] ELSE NewJob(0) IN
    [k \in DOMAIN tbl \cup {j} |->
        IF k = j
        THEN [f \in DOMAIN row |-> IF f \in DOMAIN kw THEN kw[f] ELSE row[f]]
        ELSE tbl[k]]

\* _update_job: load the row, set the given columns, commit; nothing when
\* the row is gone.
UpdateJob(tbl, j, kw) ==
    IF j \in DOMAIN tbl
    THEN [tbl EXCEPT ![j] =
            [f \in DOMAIN @ |-> IF f \in DOMAIN kw THEN kw[f] ELSE @[f]]]
    ELSE tbl

Remove(f, j) == [k \in DOMAIN f \ {j} |-> f[k]]

Put(f, j, v) == [k \in DOMAIN f \cup {j} |-> IF k = j THEN v ELSE f[k]]

\* the local state of one process_document_task (exported = the page
\* lists handed to export_pdf, one per call)
NewRun(c) ==
    [pc |-> "queued", config |-> c, num_pages |-> 0, page_num |-> 0,
     images |-> FALSE, extracted |-> <<>>, converted |-> <<>>,
     attempt |-> 0, calls |-> 0, sleeps |-> <<>>, outcomes |-> <<>>,
     composed_pages |-> <<>>, exported |-> <<>>,
     exc |-> Null, exc_in |-> Null, session_ok |-> TRUE]

\* --------------------------------------------------------------- api.py
\* upload_pdf: a fresh uuid, the row, the stored file, the page count
upload_pdf(j, doc) ==
    /\ j \notin ids_used
    /\ ids_used' = ids_used \cup {j}
    /\ jobs' = Put(jobs, j, NewJob(Len(doc)))
    /\ uploads' = Put(uploads, j, doc)
    /\ resp' = 200
    /\ UNCHANGED <<results, run, blobs, originals, diagram_cache, api_key>>

\* process_document without one of its two status guards
process_document_Unguarded(j, c, guarded) ==
    /\ IF j \notin DOMAIN jobs
       THEN /\ resp' = 404
            /\ UNCHANGED <<jobs, run>>
       ELSE IF jobs[j].status = guarded
       THEN /\ resp' = 400
            /\ UNCHANGED <<jobs, run>>
       ELSE /\ Len(run[j]) < MaxRuns
            /\ jobs' = UpdateJob(jobs, j,
                         [config |-> c, status |-> PROCESSING, progress |-> 0,
                          current_stage |-> Stage("Starting...", 0)])
            /\ run' = [run EXCEPT ![j] = Append(@, NewRun(c))]
            /\ resp' = 200
    /\ UNCHANGED <<uploads, results, ids_used, blobs, originals,
                   diagram_cache, api_key>>

process_document_NoProcessingGuard(j, c) ==
    process_document_Unguarded(j, c, COMPLETED)

process_document_NoCompletedGuard(j, c) ==
    process_document_Unguarded(j, c, PROCESSING)

\* process_document: 404 / 400 / 400, else reset the row and queue the task
process_document(j, c) ==
    /\ IF j \notin DOMAIN jobs
       THEN /\ resp' = 404
            /\ UNCHANGED <<jobs, run>>
       ELSE IF jobs[j].status = PROCESSING \/ jobs[j].status = COMPLETED
       THEN /\ resp' = 400
            /\ UNCHANGED <<jobs, run>>
       ELSE /\ Len(run[j]) < MaxRuns
            /\ jobs' = UpdateJob(jobs, j,
                         [config |-> c, status |-> PROCESSING, progress |-> 0,
                          current_stage |-> Stage("Starting...", 0)])
            /\ run' = [run EXCEPT ![j] = Append(@, NewRun(c))]
            /\ resp' = 200
    /\ UNCHANGED <<uploads, results, ids_used, blobs, originals,
                   diagram_cache, api_key>>

\* get_preview without the test of job.status
get_preview_NoStatusTest(j, page_num) ==
    /\ IF j \notin DOMAIN jobs
       THEN /\ resp' = 404
            /\ served' = <<"get_preview", j, 0>>
       ELSE IF ~(j \in DOMAIN results /\ page_num \in results[j].previews)
       THEN /\ resp' = 404
            /\ served' = <<"get_preview", j, 0>>
       ELSE /\ resp' = 200
            /\ served' = <<"get_preview", j, page_num>>
    /\ UNCHANGED <<jobs, uploads, results, ids_used, run, blobs, originals,
                   diagram_cache, api_key>>
    /\ UNCHANGED <<hw, cp, dl, sm>>

\* download_result: 404 / 400 / 404, else the file at job.result_path
download_result(j) ==
    /\ IF j \notin DOMAIN jobs
       THEN /\ resp' = 404
            /\ served' = <<"download_result", j, 0>>
       ELSE IF jobs[j].status # COMPLETED
       THEN /\ resp' = 400
            /\ served' = <<"download_result", j, 0>>
       ELSE IF \/ jobs[j].result_path = Null
               \/ ~(j \in DOMAIN results /\ results[j].pdf)
       THEN /\ resp' = 404
            /\ served' = <<"download_result", j, 0>>
       ELSE /\ resp' = 200
            /\ served' = <<"download_result", j, 1>>
    /\ UNCHANGED <<jobs, uploads, results, ids_used, run, blobs, originals,
                   diagram_cache, api_key>>
    /\ UNCHANGED <<hw, cp, dl, sm>>

\* get_preview: 404 / 400 / 404, else results/<job>/preview/page_<n>.png
get_preview(j, page_num) ==
    /\ IF j \notin DOMAIN jobs
       THEN /\ resp' = 404
            /\ served' = <<"get_preview", j, 0>>
       ELSE IF jobs[j].status # COMPLETED
       THEN /\ resp' = 400
            /\ served' = <<"get_preview", j, 0>>
       ELSE IF ~(j \in DOMAIN results /\ page_num \in results[j].previews)
       THEN /\ resp' = 404
            /\ served' = <<"get_preview", j, 0>>
       ELSE /\ resp' = 200
            /\ served' = <<"get_preview", j, page_num>>
    /\ UNCHANGED <<jobs, uploads, results, ids_used, run, blobs, originals,
                   diagram_cache, api_key>>
    /\ UNCHANGED <<hw, cp, dl, sm>>

\* delete_job: 404, else remove both directories and the row
delete_job(j) ==
    /\ IF j \notin DOMAIN jobs
       THEN /\ resp' = 404
            /\ UNCHANGED <<jobs, uploads, results>>
       ELSE /\ uploads' = Remove(uploads, j)
            /\ results' = Remove(results, j)
            /\ jobs' = Remove(jobs, j)
            /\ resp' = 200
    /\ UNCHANGED <<ids_used, run, blobs, originals, diagram_cache, api_key>>

\* ------------------------------------------------- services/processor.py
\* page_progress_base = int(5 + (page_num - 1) / num_pages * 80)
PageProgressBase(page_num, num_pages) ==
    5 + (((page_num - 1) * 80) \div num_pages)

SetRun(j, a, r) == run' = [run EXCEPT ![j][a] = r]

\* an exception leaves the try body for the except clause
\* (exc = str(e), exc_in = the call that raised)
Raise(r, e, call) == [r EXCEPT !.pc = "except", !.exc = e, !.exc_in = call]

\* the page loop with range(1, num_pages)
NextPage_OneShort(r) ==
    IF r.page_num + 1 < r.num_pages
    THEN [r EXCEPT !.pc = "extract", !.page_num = r.page_num + 1,
                   !.images = FALSE, !.extracted = <<>>, !.converted = <<>>]
    ELSE [r EXCEPT !.pc = "export",
                   !.images = FALSE, !.extracted = <<>>, !.converted = <<>>]

\* the head of "for page_num in range(1, num_pages + 1)"
NextPage(r) ==
    IF r.page_num < r.num_pages
    THEN [r EXCEPT !.pc = "extract", !.page_num = r.page_num + 1,
                   !.images = FALSE, !.extracted = <<>>, !.converted = <<>>]
    ELSE [r EXCEPT !.pc = "export",
                   !.images = FALSE, !.extracted = <<>>, !.converted = <<>>]

\* the task returns (finally: db.close()); its locals are gone, what the
\* run did is kept
Finish(r) ==
    [NewRun(Null) EXCEPT !.pc = "done", !.num_pages = r.num_pages,
                         !.exported = r.exported, !.exc = r.exc]

\* lines 49-72: look the job up, check the upload, read the page count
RunStart(j, a) ==
    LET r == run[j][a] IN
    /\ r.pc = "queued"
    /\ IF j \notin DOMAIN jobs
       THEN /\ SetRun(j, a, Finish(r))
            /\ UNCHANGED jobs
       ELSE IF ~jobs[j].upload_path \/ j \notin DOMAIN uploads
       THEN /\ jobs' = UpdateJob(jobs, j,
                         [status |-> FAILED,
                          error_message |-> "PDF file not found"])
            /\ SetRun(j, a, Finish(r))
       ELSE \/ /\ SetRun(j, a, Raise(r, Error, "get_info"))
               /\ UNCHANGED jobs
            \/ /\ jobs' = UpdateJob(jobs, j,
                            [progress |-> 5,
                             current_stage |->
                                 Stage("Extracting PDF content...", 0)])
               /\ SetRun(j, a, NextPage([r EXCEPT
                                   !.num_pages = Len(uploads[j])]))
    /\ UNCHANGED <<uploads, results, ids_used, blobs, originals,
                   diagram_cache, api_key, resp>>

\* lines 80-89, step 1: extract_page_data
RunExtract(j, a) ==
    LET r == run[j][a] IN
    /\ r.pc = "extract"
    /\ jobs' = UpdateJob(jobs, j,
                 [progress |-> PageProgressBase(r.page_num, r.num_pages),
                  current_stage |-> Stage("Extracting page", r.page_num)])
    /\ \/ SetRun(j, a, Raise(r, Error, "extract_page_data"))
       \/ /\ j \in DOMAIN uploads
          /\ SetRun(j, a, [r EXCEPT !.pc = "paper",
                             !.images = uploads[j][r.page_num].images])
    /\ UNCHANGED <<uploads, results, ids_used, blobs, originals,
                   diagram_cache, api_key, resp>>

\* lines 94-105, step 2: paper_renderer.render
RunPaper(j, a) ==
    LET r == run[j][a] IN
    /\ r.pc = "paper"
    /\ jobs' = UpdateJob(jobs, j,
                 [progress |-> PageProgressBase(r.page_num, r.num_pages) + 5,
                  current_stage |-> Stage("Rendering paper for page",
                                          r.page_num)])
    /\ \/ SetRun(j, a, Raise(r, Error, "render_paper"))
       \/ SetRun(j, a, [r EXCEPT !.pc = "text"])
    /\ UNCHANGED <<uploads, results, ids_used, blobs, originals,
                   diagram_cache, api_key, resp>>

\* step 3 followed by step 4 whether or not the page has image regions
RunText_NoImageTest(j, a) ==
    LET r == run[j][a] IN
    /\ r.pc = "text"
    /\ jobs' = UpdateJob(jobs, j,
                 [progress |-> PageProgressBase(r.page_num, r.num_pages) + 10,
                  current_stage |-> Stage("Writing text on page",
                                          r.page_num)])
    /\ \/ SetRun(j, a, Raise(r, Error, "render_page"))
       \/ SetRun(j, a, [r EXCEPT !.pc = "diagrams"])
    /\ UNCHANGED <<uploads, results, ids_used, blobs, originals,
                   diagram_cache, api_key, resp>>

\* lines 107-118, step 3: handwriting.render_page; then the test of
\* page_data["images"] (line 122)
RunText(j, a) ==
    LET r == run[j][a] IN
    /\ r.pc = "text"
    /\ jobs' = UpdateJob(jobs, j,
                 [progress |-> PageProgressBase(r.page_num, r.num_pages) + 10,
                  current_stage |-> Stage("Writing text on page",
                                          r.page_num)])
    /\ \/ SetRun(j, a, Raise(r, Error, "render_page"))
       \/ SetRun(j, a, [r EXCEPT !.pc = IF r.images THEN "diagrams"
                                                   ELSE "compose"])
    /\ UNCHANGED <<uploads, results, ids_used, blobs, originals,
                   diagram_cache, api_key, resp>>

\* lines 122-133, step 4: extract_diagram_images, then convert_diagrams
\* when something was cropped
RunDiagrams(j, a) ==
    LET r == run[j][a] IN
    /\ r.pc = "diagrams"
    /\ jobs' = UpdateJob(jobs, j,
                 [progress |-> PageProgressBase(r.page_num, r.num_pages) + 15,
                  current_stage |-> Stage("Converting diagrams on page",
                                          r.page_num)])
    /\ \/ SetRun(j, a, Raise(r, Error, "extract_diagram_images"))
       \/ /\ j \in DOMAIN uploads
          /\ LET crops == uploads[j][r.page_num].crops IN
             SetRun(j, a, [r EXCEPT !.extracted = crops,
                              !.pc = IF crops # <<>> THEN "conv_file"
                                                     ELSE "compose"])
    /\ UNCHANGED <<uploads, results, ids_used, blobs, originals,
                   diagram_cache, api_key, resp>>

\* ----------------------------------------- services/diagram_converter.py
\* what one "await client.post" of _call_imagen can come back with
ApiOutcomes == {"image", "empty", "rate_limited", "error", "exception"}

\* the dict _convert_single returns; calls = the posts it made
Converted(h, image, from_cache, warning, calls) ==
    [image_hash |-> h, converted_image |-> image, from_cache |-> from_cache,
     warning |-> warning, calls |-> calls]

\* DiagramCache(...) as _convert_single adds it
CacheEntry(h) ==
    [image_hash |-> h, diagram_type |-> "generic", converted_path |-> h,
     last_accessed |-> "created"]

\* query(DiagramCache).filter(image_hash == h) on table tbl: row positions
RowsOf(tbl, h) == {i \in 1..Len(tbl) : tbl[i].image_hash = h}

CacheRows(h) == RowsOf(diagram_cache, h)

\* .first()
FirstRow(h) == CHOOSE i \in CacheRows(h) : \A k \in CacheRows(h) : i <= k

\* the diagram _convert_single is working on
CurrentHash(r) == r.extracted[Len(r.converted) + 1]

\* _convert_single returns d; convert_diagrams appends it and takes the
\* next diagram, or returns to the page loop (compose)
ReturnDiagram(r, d) ==
    LET res == Append(r.converted, d) IN
    [r EXCEPT !.converted = res,
              !.attempt = 0, !.calls = 0, !.sleeps = <<>>, !.outcomes = <<>>,
              !.pc = IF Len(res) < Len(r.extracted) THEN "conv_file"
                                                     ELSE "compose"]

\* a file-cache hit that also adds the index row the hash lacks
ConvCheckFile_HitAddsRow(j, a) ==
    LET r == run[j][a]
        h == CurrentHash(r) IN
    /\ r.pc = "conv_file"
    /\ IF h \in blobs
       THEN /\ SetRun(j, a, ReturnDiagram(r,
                   Converted(h, "stylized", TRUE, Null, 0)))
            /\ diagram_cache' = IF CacheRows(h) = {}
                                THEN Append(diagram_cache, CacheEntry(h))
                                ELSE diagram_cache
       ELSE /\ SetRun(j, a, [r EXCEPT !.pc = "conv_db"])
            /\ UNCHANGED diagram_cache
    /\ UNCHANGED <<jobs, uploads, results, ids_used, blobs, originals,
                   api_key, resp>>

\* lines 75-81: 1. check the file cache
ConvCheckFile(j, a) ==
    LET r == run[j][a]
        h == CurrentHash(r) IN
    /\ r.pc = "conv_file"
    /\ IF h \in blobs
       THEN SetRun(j, a, ReturnDiagram(r,
                Converted(h, "stylized", TRUE, Null, 0)))
       ELSE SetRun(j, a, [r EXCEPT !.pc = "conv_db"])
    /\ UNCHANGED <<jobs, uploads, results, ids_used, blobs, originals,
                   diagram_cache, api_key, resp>>

\* _convert_single without the test of the API key (lines 99-103)
ConvCheckDB_NoKeyTest(j, a) ==
    LET r == run[j][a]
        h == CurrentHash(r) IN
    /\ r.pc = "conv_db"
    /\ IF CacheRows(h) # {} /\ diagram_cache[FirstRow(h)].converted_path \in blobs
       THEN /\ diagram_cache' = [diagram_cache EXCEPT
                                   ![FirstRow(h)].last_accessed = "touched"]
            /\ SetRun(j, a, ReturnDiagram(r,
                   Converted(h, "stylized", TRUE, Null, 0)))
       ELSE /\ UNCHANGED diagram_cache
            /\ SetRun(j, a, [r EXCEPT !.pc = "imagen", !.attempt = 0])
    /\ UNCHANGED <<jobs, uploads, results, ids_used, blobs, originals,
                   api_key, resp>>

\* lines 83-105: 2. check the DB cache, 3. the API key
ConvCheckDB(j, a) ==
    LET r == run[j][a]
        h == CurrentHash(r) IN
    /\ r.pc = "conv_db"
    /\ IF CacheRows(h) # {} /\ diagram_cache[FirstRow(h)].converted_path \in blobs
       THEN /\ diagram_cache' = [diagram_cache EXCEPT
                                   ![FirstRow(h)].last_accessed = "touched"]
            /\ SetRun(j, a, ReturnDiagram(r,
                   Converted(h, "stylized", TRUE, Null, 0)))
       ELSE /\ UNCHANGED diagram_cache
            /\ IF api_key = "" \/ api_key = "your_api_key_here"
               THEN SetRun(j, a, ReturnDiagram(r,
                        Converted(h, "original", FALSE, "no_api_key", 0)))
               ELSE SetRun(j, a, [r EXCEPT !.pc = "imagen", !.attempt = 0])
    /\ UNCHANGED <<jobs, uploads, results, ids_used, blobs, originals,
                   api_key, resp>>

\* 2 ** attempt
Backoff(attempt) == 2 ^ attempt

\* _call_imagen without its "except Exception": a failed post propagates
ImagenAttempt_Uncaught(j, a, o) ==
    LET r == run[j][a]
        h == CurrentHash(r)
        r1 == [r EXCEPT !.calls = r.calls + 1,
                        !.outcomes = Append(r.outcomes, o)]
        slept == [r1 EXCEPT !.sleeps = Append(r.sleeps, Backoff(r.attempt))]
        again(x) ==
            IF x.attempt < 2
            THEN [x EXCEPT !.attempt = x.attempt + 1]
            ELSE ReturnDiagram(x,
                     Converted(h, "original", FALSE, "failed", x.calls)) IN
    /\ r.pc = "imagen"
    /\ CASE o = "image" -> SetRun(j, a, [r1 EXCEPT !.pc = "save_blob"])
         [] o = "empty" -> SetRun(j, a, again(r1))
         [] o = "rate_limited" -> SetRun(j, a, again(slept))
         [] o = "error" ->
                SetRun(j, a, ReturnDiagram(r1,
                    Converted(h, "original", FALSE, "failed", r1.calls)))
         [] o = "exception" -> SetRun(j, a, Raise(r1, Error, "post"))
    /\ UNCHANGED <<jobs, uploads, results, ids_used, blobs, originals,
                   diagram_cache, api_key, resp>>

\* _call_imagen with "for attempt in range(4)"
ImagenAttempt_FourAttempts(j, a, o) ==
    LET r == run[j][a]
        h == CurrentHash(r)
        r1 == [r EXCEPT !.calls = r.calls + 1,
                        !.outcomes = Append(r.outcomes, o)]
        slept == [r1 EXCEPT !.sleeps = Append(r.sleeps, Backoff(r.attempt))]
        again(x) ==
            IF x.attempt < 3
            THEN [x EXCEPT !.attempt = x.attempt + 1]
            ELSE ReturnDiagram(x,
                     Converted(h, "original", FALSE, "failed", x.calls)) IN
    /\ r.pc = "imagen"
    /\ CASE o = "image" -> SetRun(j, a, [r1 EXCEPT !.pc = "save_blob"])
         [] o = "empty" -> SetRun(j, a, again(r1))
         [] o = "rate_limited" -> SetRun(j, a, again(slept))
         [] o = "error" ->
                SetRun(j, a, ReturnDiagram(r1,
                    Converted(h, "original", FALSE, "failed", r1.calls)))
         [] o = "exception" ->
                SetRun(j, a, again(IF r.attempt < 2 THEN slept ELSE r1))
    /\ UNCHANGED <<jobs, uploads, results, ids_used, blobs, originals,
                   diagram_cache, api_key, resp>>

\* _call_imagen, lines 177-209: one pass of "for attempt in range(3)",
\* i.e. one post and what the loop does with the answer; when the loop is
\* left without an image, lines 128-134 of _convert_single follow.
ImagenAttempt(j, a, o) ==
    LET r == run[j][a]
        h == CurrentHash(r)
        r1 == [r EXCEPT !.calls = r.calls + 1,
                        !.outcomes = Append(r.outcomes, o)]
        slept == [r1 EXCEPT !.sleeps = Append(r.sleeps, Backoff(r.attempt))]
        \* the loop goes round again, or is exhausted and None is returned
        again(x) ==
            IF x.attempt < 2
            THEN [x EXCEPT !.attempt = x.attempt + 1]
            ELSE ReturnDiagram(x,
                     Converted(h, "original", FALSE, "failed", x.calls)) IN
    /\ r.pc = "imagen"
    /\ CASE o = "image" -> SetRun(j, a, [r1 EXCEPT !.pc = "save_blob"])
         [] o = "empty" -> SetRun(j, a, again(r1))
         [] o = "rate_limited" -> SetRun(j, a, again(slept))
         [] o = "error" ->
                SetRun(j, a, ReturnDiagram(r1,
                    Converted(h, "original", FALSE, "failed", r1.calls)))
         [] o = "exception" ->
                SetRun(j, a, again(IF r.attempt < 2 THEN slept ELSE r1))
    /\ UNCHANGED <<jobs, uploads, results, ids_used, blobs, originals,
                   diagram_cache, api_key, resp>>

\* _convert_single that does not write the converted image to the cache
ConvSaveBlob_NoWrite(j, a) ==
    LET r == run[j][a] IN
    /\ r.pc = "save_blob"
    /\ SetRun(j, a, [r EXCEPT !.pc = "insert"])
    /\ UNCHANGED <<jobs, uploads, results, ids_used, blobs, originals,
                   diagram_cache, api_key, resp>>

\* line 110: converted_img.save(cached_path)
ConvSaveBlob(j, a) ==
    LET r == run[j][a] IN
    /\ r.pc = "save_blob"
    /\ blobs' = blobs \cup {CurrentHash(r)}
    /\ SetRun(j, a, [r EXCEPT !.pc = "insert"])
    /\ UNCHANGED <<jobs, uploads, results, ids_used, originals,
                   diagram_cache, api_key, resp>>

\* lines 112-127: save the original, add the DiagramCache row and commit.
\* image_hash is unique (models.py:57): the commit of a second row for the
\* same hash raises IntegrityError and leaves the session failed.
ConvInsert(j, a) ==
    LET r == run[j][a]
        h == CurrentHash(r) IN
    /\ r.pc = "insert"
    /\ originals' = originals \cup {h}
    /\ IF CacheRows(h) # {}
       THEN /\ SetRun(j, a, [Raise(r, "IntegrityError", "commit") EXCEPT
                                 !.session_ok = FALSE])
            /\ UNCHANGED diagram_cache
       ELSE /\ diagram_cache' = Append(diagram_cache, CacheEntry(h))
            /\ SetRun(j, a, ReturnDiagram(r,
                   Converted(h, "stylized", FALSE, Null, r.calls)))
    /\ UNCHANGED <<jobs, uploads, results, ids_used, blobs, api_key, resp>>

\* ------------------------------------- services/processor.py (continued)
\* lines 135-147, step 5: compose_page, composed_pages.append
RunCompose(j, a) ==
    LET r == run[j][a] IN
    /\ r.pc = "compose"
    /\ jobs' = UpdateJob(jobs, j,
                 [progress |-> PageProgressBase(r.page_num, r.num_pages) + 18,
                  current_stage |-> Stage("Composing page", r.page_num)])
    /\ \/ SetRun(j, a, Raise(r, Error, "compose_page"))
       \/ SetRun(j, a, NextPage([r EXCEPT !.composed_pages =
                                     Append(r.composed_pages, r.page_num)]))
    /\ UNCHANGED <<uploads, results, ids_used, blobs, originals,
                   diagram_cache, api_key, resp>>

\* the files of storage/results/<job> after saving previews 1..k and,
\* when pdf, result.pdf (mkdir(parents=True, exist_ok=True) keeps what is
\* there)
ResultFiles(j, k, pdf) ==
    LET old == IF j \in DOMAIN results THEN results[j]
               ELSE [previews |-> {}, pdf |-> FALSE] IN
    Put(results, j, [previews |-> old.previews \cup (1..k),
                     pdf |-> old.pdf \/ pdf])

\* lines 149-165, step 6: the preview images, then export_pdf
RunExport(j, a) ==
    LET r == run[j][a]
        n == Len(r.composed_pages) IN
    /\ r.pc = "export"
    /\ jobs' = UpdateJob(jobs, j,
                 [progress |-> 90,
                  current_stage |-> Stage("Generating output files...", 0)])
    /\ \/ \E k \in 0..(n - 1) :
             /\ results' = ResultFiles(j, k, FALSE)
             /\ SetRun(j, a, Raise(r, Error, "save_preview"))
       \/ /\ results' = ResultFiles(j, n, FALSE)
          /\ SetRun(j, a, Raise([r EXCEPT !.exported = <<r.composed_pages>>],
                                Error, "export_pdf"))
       \/ /\ results' = ResultFiles(j, n, TRUE)
          /\ SetRun(j, a, [r EXCEPT !.exported = <<r.composed_pages>>,
                                    !.pc = "complete"])
    /\ UNCHANGED <<uploads, ids_used, blobs, originals, diagram_cache,
                   api_key, resp>>

\* lines 167-175: done
RunComplete(j, a) ==
    LET r == run[j][a] IN
    /\ r.pc = "complete"
    /\ jobs' = UpdateJob(jobs, j,
                 [status |-> COMPLETED, progress |-> 100,
                  current_stage |-> Stage("Completed", 0),
                  result_path |-> "result.pdf"])
    /\ SetRun(j, a, Finish(r))
    /\ UNCHANGED <<uploads, results, ids_used, blobs, originals,
                   diagram_cache, api_key, resp>>

\* an except clause that marks the job failed but drops the message
RunExcept_NoMessage(j, a) ==
    LET r == run[j][a] IN
    /\ r.pc = "except"
    /\ jobs' = UpdateJob(jobs, j,
                 [status |-> FAILED, current_stage |-> Stage("Failed", 0)])
    /\ SetRun(j, a, Finish(r))
    /\ UNCHANGED <<uploads, results, ids_used, blobs, originals,
                   diagram_cache, api_key, resp>>

\* lines 177-187: except Exception / finally.  With a session whose last
\* commit failed, the query of _update_job either works on a rolled-back
\* session or raises in its turn and leaves the row as it is.
RunExcept(j, a) ==
    LET r == run[j][a] IN
    /\ r.pc = "except"
    /\ \/ /\ jobs' = UpdateJob(jobs, j,
                       [status |-> FAILED,
                        current_stage |-> Stage("Failed", 0),
                        error_message |-> r.exc])
          /\ SetRun(j, a, Finish(r))
       \/ /\ ~r.session_ok
          /\ UNCHANGED jobs
          /\ SetRun(j, a, Finish([r EXCEPT
                                       !.exc = "PendingRollbackError"]))
    /\ UNCHANGED <<uploads, results, ids_used, blobs, originals,
                   diagram_cache, api_key, resp>>

\* --------------------------------------- services/handwriting_engine.py
\* the words a line is made of (a word is its list of characters)
Vocabulary ==
    {<<"a">>, <<"t", "o">>, <<"T", "h", "e">>, <<"h", "e", "l", "o">>,
     <<"w", "o", "r", "l", "d">>}

\* the gaps between two words of a line
Gaps == {<<" ">>, <<" ", " ">>}

RECURSIVE Join(_, _)
Join(ws, gap) ==
    IF ws = <<>> THEN <<>>
    ELSE IF Len(ws) = 1 THEN ws[1]
    ELSE ws[1] \o gap \o Join(Tail(ws), gap)

Texts(maxw) == {Join(ws, gap) : ws \in SeqsUpTo(Vocabulary, maxw), gap \in Gaps}

\* imperfection_level and the values of random.random() (in [0, 1)), in 1/100
Levels == {0, 7, 100}

Rolls == {0, 6, 7, 99}

Mistakes == {"spelling", "strikethrough", "erasure"}

ErrorTypes == {"swap", "double", "miss", "nearby"}

\* str.split(): the maximal runs of non-blank characters
RECURSIVE SplitFrom(_, _, _)
SplitFrom(t, cur, acc) ==
    IF t = <<>>
    THEN IF cur = <<>> THEN acc ELSE Append(acc, cur)
    ELSE IF Head(t) = " "
    THEN SplitFrom(Tail(t), <<>>, IF cur = <<>> THEN acc ELSE Append(acc, cur))
    ELSE SplitFrom(Tail(t), Append(cur, Head(t)), acc)

split(t) == SplitFrom(t, <<>>, <<>>)

\* word.strip()
RECURSIVE strip(_)
strip(w) ==
    IF w = <<>> THEN <<>>
    ELSE IF Head(w) = " " THEN strip(Tail(w))
    ELSE IF w[Len(w)] = " " THEN strip(SubSeq(w, 1, Len(w) - 1))
    ELSE w

\* str.lower(), str.upper(), str.isupper() on one character
lower(ch) == IF ch = "T" THEN "t" ELSE ch

upper(ch) == IF ch = "t" THEN "T" ELSE IF ch = "y" THEN "Y" ELSE ch

isupper(ch) == ch \in {"T", "Y"}

\* the dict nearby of _make_spelling_error, as nearby.get(ch, ch)
nearby(ch) ==
    CASE ch = "a" -> "s" [] ch = "s" -> "a" [] ch = "d" -> "s"
      [] ch = "e" -> "r" [] ch = "r" -> "t" [] ch = "t" -> "y"
      [] ch = "i" -> "o" [] ch = "o" -> "p" [] ch = "n" -> "m"
      [] ch = "m" -> "n" [] OTHER -> ch

\* the values random.randint can return in _make_spelling_error (0 when
\* it is not called)
Positions(word, error_type) ==
    IF Len(word) < 3 THEN {0}
    ELSE IF error_type = "swap" THEN 1..(Len(word) - 2)
    ELSE IF error_type = "miss"
    THEN IF Len(word) >= 4 THEN 1..(Len(word) - 2) ELSE {0}
    ELSE 0..(Len(word) - 1)

\* word[i:k] of Python
Slice(word, i, k) == SubSeq(word, i + 1, k)

\* _make_spelling_error with error_type and pos as drawn
make_spelling_error(word, error_type, pos) ==
    LET n == Len(word) IN
    IF n < 3 THEN word
    ELSE IF error_type = "swap"
    THEN Slice(word, 0, pos) \o <<word[pos + 2], word[pos + 1]>>
             \o Slice(word, pos + 2, n)
    ELSE IF error_type = "double"
    THEN Slice(word, 0, pos) \o <<word[pos + 1]>> \o Slice(word, pos, n)
    ELSE IF error_type = "miss" /\ n >= 4
    THEN Slice(word, 0, pos) \o Slice(word, pos + 1, n)
    ELSE IF error_type = "nearby"
    THEN LET replacement == nearby(lower(word[pos + 1])) IN
         Slice(word, 0, pos)
             \o <<IF isupper(word[pos + 1]) THEN upper(replacement)
                                            ELSE replacement>>
             \o Slice(word, pos + 1, n)
    ELSE word

\* the dicts _apply_imperfections appends (correction: Null when absent)
Segment(t, type, correction) ==
    [text |-> t, type |-> type, correction |-> correction]

Normal(word) == Segment(word, "normal", Null)

\* Defect with text and correction of a misspelling exchanged
Defect_CorrectionIsMisspelling(word, mistake, error_type, pos) ==
    IF mistake = "spelling"
    THEN Segment(word, "error", make_spelling_error(word, error_type, pos))
    ELSE IF mistake = "strikethrough"
    THEN Segment(word, "strikethrough", word)
    ELSE Segment(word, "erasure", Null)

\* the segment of a word whose roll is below the level, whatever its length
Defect(word, mistake, error_type, pos) ==
    IF mistake = "spelling"
    THEN Segment(make_spelling_error(word, error_type, pos), "error", word)
    ELSE IF mistake = "strikethrough"
    THEN Segment(word, "strikethrough", word)
    ELSE Segment(word, "erasure", Null)

\* the loop body without "and len(word) > 2"
apply_imperfections_NoLengthGate(roll, mistake, error_type, pos) ==
    LET word == words[word_idx + 1] IN
    /\ word_idx < Len(words)
    /\ pos \in Positions(word, error_type)
    /\ word_idx' = word_idx + 1
    /\ segments' = Append(segments,
            IF strip(word) = <<>> THEN Normal(<<" ">>)
            ELSE IF roll < imperfection_level
            THEN Defect(word, mistake, error_type, pos)
            ELSE Normal(word))
    /\ UNCHANGED <<text, imperfection_level, words>>
    /\ UNCHANGED <<jobs, uploads, results, ids_used, run, blobs, originals,
                   diagram_cache, api_key, resp>>
    /\ UNCHANGED <<cp, dl, sm, served>>

\* the loop body with "roll <= self.imperfection_level"
apply_imperfections_RollNotAbove(roll, mistake, error_type, pos) ==
    LET word == words[word_idx + 1] IN
    /\ word_idx < Len(words)
    /\ pos \in Positions(word, error_type)
    /\ word_idx' = word_idx + 1
    /\ segments' = Append(segments,
            IF strip(word) = <<>> THEN Normal(<<" ">>)
            ELSE IF roll <= imperfection_level /\ Len(word) > 2
            THEN Defect(word, mistake, error_type, pos)
            ELSE Normal(word))
    /\ UNCHANGED <<text, imperfection_level, words>>
    /\ UNCHANGED <<jobs, uploads, results, ids_used, run, blobs, originals,
                   diagram_cache, api_key, resp>>
    /\ UNCHANGED <<cp, dl, sm, served>>

\* _apply_imperfections, lines 116-150: one pass of "for word in words"
\* with the values its random draws return
apply_imperfections(roll, mistake, error_type, pos) ==
    LET word == words[word_idx + 1] IN
    /\ word_idx < Len(words)
    /\ pos \in Positions(word, error_type)
    /\ word_idx' = word_idx + 1
    /\ segments' = Append(segments,
            IF strip(word) = <<>> THEN Normal(<<" ">>)
            ELSE IF roll < imperfection_level /\ Len(word) > 2
            THEN Defect(word, mistake, error_type, pos)
            ELSE Normal(word))
    /\ UNCHANGED <<text, imperfection_level, words>>
    /\ UNCHANGED <<jobs, uploads, results, ids_used, run, blobs, originals,
                   diagram_cache, api_key, resp>>
    /\ UNCHANGED <<cp, dl, sm, served>>

\* ------------------------------------------ services/layout_composer.py
\* an RGBA pixel: c stands for each of the bands R, G, B (all treated
\* alike), a is the alpha band; 8 bits each
Pixel(c, a) == [c |-> c, a |-> a]

PageColours == {0, 200}

DiagramColours == {10, 250}

Alphas == {0, 128, 255}

\* the page after Image.alpha_composite(paper.convert("RGBA"), text_layer)
\* (lines 33-41): width pixels, all opaque
Composites(width) ==
    [1..width -> {Pixel(c, 255) : c \in PageColours}]

\* a diagram after resize((w, h), LANCZOS) and its position x (lines
\* 56-66): w >= 1 pixels of any colour and alpha
Diagrams(width, w) ==
    {[x |-> x, pixels |-> px] :
        x \in 0..(width - 1),
        px \in UNION {[1..n -> {Pixel(c, a) : c \in DiagramColours,
                                              a \in Alphas}] : n \in 1..w}}

\* Pillow's division by 255 with rounding
DIV255(a) == LET tmp == a + 128 IN ((tmp \div 256) + tmp) \div 256

\* Pillow's blend of one band under a mask value
BLEND8(mask, in1, in2) == DIV255(in1 * (255 - mask) + in2 * mask)

\* Image.paste(im, box, mask) on one pixel, mask = the alpha band of im:
\* every band of the page pixel, its alpha included, is blended
PastePixel(under, over) ==
    Pixel(BLEND8(over.a, under.c, over.c), BLEND8(over.a, under.a, over.a))

\* pixel k of the page lies inside the target rectangle of diagram d
Covered(d, k) == k - d.x \in 1..Len(d.pixels)

\* compose_page, line 69: page.paste(converted, (x, y), converted)
compose_page_paste ==
    /\ composite # <<>>
    /\ pasted = 0
    /\ composite' =
          [k \in 1..Len(composite) |->
              IF Covered(diagram, k)
              THEN PastePixel(composite[k], diagram.pixels[k - diagram.x])
              ELSE composite[k]]
    /\ pasted' = 1
    /\ UNCHANGED <<diagram, store, hw, dl, sm, served>>

\* compose_page, line 71: return page.convert("RGB"); the alpha band goes
compose_page_return ==
    /\ composite # <<>>
    /\ pasted = 1
    /\ composite' = [k \in 1..Len(composite) |-> Pixel(composite[k].c, 255)]
    /\ pasted' = 2
    /\ UNCHANGED <<diagram, store, hw, dl, sm, served>>

\* ------------------------------------------- services/paper_renderer.py
\* ProcessConfig.line_spacing (schemas.py: ge=20, le=40)
Spacings == 20..40

\* widths of the paper, in pixels: one point per line (w <= 15) or more
Widths == {1, 15, 16, 31}

\* len(points) for "for x in range(0, w, 15)"
PointsOnLine(w) == (w + 14) \div 15

\* the while loop with "y < h + 20"
draw_lined_MarginAdded ==
    /\ line_spacing > 0
    /\ line_y < paper_h + 20
    /\ rules' = IF PointsOnLine(paper_w) > 1 THEN rules + 1 ELSE rules
    /\ line_y' = line_y + line_spacing
    /\ UNCHANGED <<paper_w, paper_h, line_spacing, store, hw, cp, sm, served>>

\* _draw_lined, lines 92-101: one pass of "while y < h - 20"; the line is
\* drawn when it has more than one point
draw_lined ==
    /\ line_spacing > 0
    /\ line_y < paper_h - 20
    /\ rules' = IF PointsOnLine(paper_w) > 1 THEN rules + 1 ELSE rules
    /\ line_y' = line_y + line_spacing
    /\ UNCHANGED <<paper_w, paper_h, line_spacing, store, hw, cp, sm, served>>

\* ------------------------- services/handwriting_engine.py, _apply_smudges
\* alpha of a pixel of the text layer: no ink, faint, nearly and fully opaque
InkAlphas == {0, 1, 240, 255}

\* the text layer, a row of RGBA pixels of one ink colour
Canvases(width) == [1..width -> {Pixel(30, a) : a \in InkAlphas}]

\* draws of random.randint(0, 20)
Increments == {0, 7, 20}

\* img_array[py, px, 3] + random.randint(0, 20): the element is a numpy.uint8.
\* NumPy 1.x promotes the sum to a wider integer; NumPy 2 (NEP 50) keeps
\* uint8 and the sum wraps modulo 2^8. The source pins no version.
Promotions == {"legacy", "nep50"}

uint8_add(a, inc) == IF promotion = "nep50" THEN (a + inc) % 256 ELSE a + inc

min(a, b) == IF a <= b THEN a ELSE b

\* lines 296-299: the alpha of an inked pixel under the spot
SmudgePixel(p, inc) ==
    IF p.a > 0 THEN Pixel(p.c, min(255, uint8_add(p.a, inc))) ELSE p

\* _apply_smudges, lines 286-299: one smudge spot, covering the pixels
\* lo..hi of the row, with one draw of the increment per pixel
apply_smudges(lo, hi, incs) ==
    /\ num_smudges > 0
    /\ num_smudges' = num_smudges - 1
    /\ smudged' = [k \in 1..Len(smudged) |->
                      IF k \in lo..hi
                      THEN SmudgePixel(smudged[k], incs[k])
                      ELSE smudged[k]]
    /\ UNCHANGED <<canvas, promotion, store, hw, cp, dl, served>>

\* ------------------------------------------------------- specifications
\* the diagram cache survives restarts: any blob store and index, with or
\* without the blob of an index row
CacheStates ==
    {[b |-> b, t |-> t] :
        b \in SUBSET Hashes,
        t \in {<<>>} \cup {<<CacheEntry(h)>> : h \in Hashes}}

\* the path of the blob of h under an earlier CACHE_DIR (converted_path is
\* stored as a string when the row is added)
EarlierPath(h) == "earlier/" \o h

\* the same, the rows and blobs written under this CACHE_DIR or an earlier one
CacheStatesAnyDir ==
    {[b |-> b, t |-> t] :
        b \in SUBSET (Hashes \cup {EarlierPath(h) : h \in Hashes}),
        t \in {<<>>} \cup {<<CacheEntry(h)>> : h \in Hashes}
                     \cup {<<[CacheEntry(h) EXCEPT
                                !.converted_path = EarlierPath(h)]>> :
                              h \in Hashes}}

EmptyCache == [b |-> {}, t |-> <<>>]

ApiKeys == {"", "your_api_key_here", "key"}

\* no call of _apply_imperfections is under way
NoLine ==
    /\ text = <<>>
    /\ imperfection_level = 0
    /\ words = <<>>
    /\ word_idx = 0
    /\ segments = <<>>

\* no call of compose_page is under way
NoPage == composite = <<>> /\ diagram = Null /\ pasted = 0

\* no call of _draw_lined is under way
NoPaper ==
    /\ paper_w = 0
    /\ paper_h = 0
    /\ line_spacing = 0
    /\ line_y = 0
    /\ rules = 0

\* no call of _apply_smudges is under way
NoCanvas ==
    /\ canvas = <<>>
    /\ smudged = <<>>
    /\ num_smudges = 0
    /\ promotion = Null

\* no download or preview was asked for
NoneServed == served = <<>>

\* the job store and the diagram cache once the jobs of DOMAIN docs have
\* been uploaded
InitStore(cache, key, docs) ==
    /\ jobs = [j \in DOMAIN docs |-> NewJob(Len(docs[j]))]
    /\ uploads = docs
    /\ results = <<>>
    /\ ids_used = DOMAIN docs
    /\ run = [j \in Jobs |-> <<>>]
    /\ blobs = cache.b
    /\ originals = {}
    /\ diagram_cache = cache.t
    /\ api_key = key
    /\ resp = 0

\* the state once the jobs of DOMAIN docs have been uploaded
InitWith(cache, key, docs) ==
    /\ InitStore(cache, key, docs)
    /\ NoLine
    /\ NoPage
    /\ NoPaper
    /\ NoCanvas
    /\ NoneServed

RunStep(j, a) ==
    \/ RunStart(j, a)
    \/ RunExtract(j, a)
    \/ RunPaper(j, a)
    \/ RunText(j, a)
    \/ RunDiagrams(j, a)
    \/ ConvCheckFile(j, a)
    \/ ConvCheckDB(j, a)
    \/ \E o \in ApiOutcomes : ImagenAttempt(j, a, o)
    \/ ConvSaveBlob(j, a)
    \/ ConvInsert(j, a)
    \/ RunCompose(j, a)
    \/ RunExport(j, a)
    \/ RunComplete(j, a)
    \/ RunExcept(j, a)

\* ---- Spec: the life of one job (upload, start, delete, its runs)
Init == \E cache \in CacheStates, key \in ApiKeys : InitWith(cache, key, <<>>)

Next ==
    \/ /\ \E doc \in Documents(MaxPages, MaxCrops) : upload_pdf("j1", doc)
       /\ UNCHANGED others
    \/ /\ \E c \in Configs : process_document("j1", c)
       /\ UNCHANGED others
    \/ /\ delete_job("j1")
       /\ UNCHANGED others
    \/ /\ \E a \in 1..Len(run["j1"]) : RunStep("j1", a)
       /\ UNCHANGED others

Spec == Init /\ [][Next]_vars

\* ---- SpecCache: the runs of one uploaded job over pages with several
\* diagrams, from every cache state
InitCache ==
    \E cache \in CacheStatesAnyDir, key \in ApiKeys,
       doc \in Documents(CachePages, MaxDiagrams) :
        InitWith(cache, key, [j \in {"j1"} |-> doc])

NextCache ==
    \/ /\ \E c \in Configs : process_document("j1", c)
       /\ UNCHANGED others
    \/ /\ \E a \in 1..Len(run["j1"]) : RunStep("j1", a)
       /\ UNCHANGED others

SpecCache == InitCache /\ [][NextCache]_vars

\* ---- SpecRace: two jobs for two uploads of the same document, started
\* on an empty cache
InitRace ==
    \E key \in ApiKeys, doc \in Documents(RacePages, RaceDiagrams) :
        InitWith(EmptyCache, key, [j \in Jobs |-> doc])

NextRace ==
    \/ /\ \E j \in Jobs, c \in {"cfgA"} : process_document(j, c)
       /\ UNCHANGED others
    \/ /\ \E j \in Jobs : \E a \in 1..Len(run[j]) : RunStep(j, a)
       /\ UNCHANGED others

SpecRace == InitRace /\ [][NextRace]_vars

\* ---- SpecProgress: the progress writes of the runs of one job over long
\* documents (no page has a diagram to crop)
UniformDocuments(maxp) ==
    {[i \in 1..n |-> k] : n \in 1..maxp, k \in PageKinds(0)}

InitProgress ==
    \E doc \in UniformDocuments(MaxPagesProgress) :
        InitWith(EmptyCache, "", [j \in {"j1"} |-> doc])

NextProgress ==
    \/ /\ process_document("j1", "cfgA")
       /\ UNCHANGED others
    \/ /\ \E a \in 1..Len(run["j1"]) :
             \/ RunStart("j1", a)
             \/ RunExtract("j1", a)
             \/ RunPaper("j1", a)
             \/ RunText("j1", a)
             \/ RunDiagrams("j1", a)
             \/ RunCompose("j1", a)
             \/ RunExport("j1", a)
             \/ RunComplete("j1", a)
             \/ RunExcept("j1", a)
       /\ UNCHANGED others

SpecProgress == InitProgress /\ [][NextProgress]_vars

\* ---- SpecImperfections: one call of _apply_imperfections on a line, for
\* every level and every value of the random draws
InitImperfections ==
    /\ InitStore(EmptyCache, "", <<>>)
    /\ text \in Texts(MaxWords)
    /\ imperfection_level \in Levels
    /\ words = split(text)
    /\ word_idx = 0
    /\ segments = <<>>
    /\ NoPage
    /\ NoPaper
    /\ NoCanvas
    /\ NoneServed

NextImperfections ==
    \E roll \in Rolls, mistake \in Mistakes, error_type \in ErrorTypes :
        \E pos \in Positions(IF word_idx < Len(words)
                              THEN words[word_idx + 1] ELSE <<>>,
                              error_type) :
            apply_imperfections(roll, mistake, error_type, pos)

SpecImperfections == InitImperfections /\ [][NextImperfections]_vars

\* ---- SpecCompose: one call of compose_page with one diagram, over every
\* page row and every diagram row
InitCompose ==
    /\ InitStore(EmptyCache, "", <<>>)
    /\ composite \in Composites(PageWidth)
    /\ diagram \in Diagrams(PageWidth, DiagramWidth)
    /\ pasted = 0
    /\ NoLine
    /\ NoPaper
    /\ NoCanvas
    /\ NoneServed

NextCompose ==
    \/ compose_page_paste
    \/ compose_page_return

SpecCompose == InitCompose /\ [][NextCompose]_vars

\* ---- SpecLined: one call of _draw_lined, for every height, width and
\* spacing; the state after line 91 (y = spacing + 40)
InitLined ==
    /\ InitStore(EmptyCache, "", <<>>)
    /\ paper_w \in Widths
    /\ paper_h \in 1..MaxHeight
    /\ line_spacing \in Spacings
    /\ line_y = line_spacing + 40
    /\ rules = 0
    /\ NoLine
    /\ NoPage
    /\ NoCanvas
    /\ NoneServed

NextLined == draw_lined

SpecLined == InitLined /\ [][NextLined]_vars

\* ---- SpecSmudge: one call of _apply_smudges on a row of the text layer
InitSmudge ==
    /\ InitStore(EmptyCache, "", <<>>)
    /\ canvas \in Canvases(CanvasWidth)
    /\ smudged = canvas
    /\ num_smudges \in 0..3
    /\ promotion \in Promotions
    /\ NoLine
    /\ NoPage
    /\ NoPaper
    /\ NoneServed

NextSmudge ==
    \E lo \in 1..Len(smudged), hi \in 1..Len(smudged),
       incs \in [1..Len(smudged) -> Increments] :
        /\ lo <= hi
        /\ apply_smudges(lo, hi, incs)

SpecSmudge == InitSmudge /\ [][NextSmudge]_vars

\* ---- SpecServe: one uploaded job without diagrams, its starts, its runs,
\* its deletion, and the requests for its result and its previews
InitServe ==
    \E doc \in UniformDocuments(ServePages) :
        InitWith(EmptyCache, "", [j \in {"j1"} |-> doc])

NextServe ==
    \/ /\ process_document("j1", "cfgA")
       /\ UNCHANGED others
    \/ /\ delete_job("j1")
       /\ UNCHANGED others
    \/ download_result("j1")
    \/ \E page_num \in 1..(ServePages + 1) : get_preview("j1", page_num)
    \/ /\ \E a \in 1..Len(run["j1"]) :
             \/ RunStart("j1", a)
             \/ RunExtract("j1", a)
             \/ RunPaper("j1", a)
             \/ RunText("j1", a)
             \/ RunDiagrams("j1", a)
             \/ RunCompose("j1", a)
             \/ RunExport("j1", a)
             \/ RunComplete("j1", a)
             \/ RunExcept("j1", a)
       /\ UNCHANGED others

SpecServe == InitServe /\ [][NextServe]_vars

\* ================================================================ claims
Runs(j) == 1..Len(run[j])

\* <<1, ..., n>>
Pages(n) == [i \in 1..n |-> i]

\* the four columns a status poll shows
Shown(row) ==
    <<row.status, row.progress, row.current_stage, row.error_message>>

\* ------------------------------------------------------------------- C1
\* C1: a start-processing request on a job whose status is Processing or
\* Completed is answered 400, leaves every column of the job row as it was
\* and queues no run.
C1_RejectedStartChangesNothing ==
    [][\A j \in Jobs, c \in Configs :
         (/\ j \in DOMAIN jobs
          /\ jobs[j].status \in {PROCESSING, COMPLETED}
          /\ process_document(j, c))
         => (resp' = 400 /\ jobs' = jobs /\ run' = run)]_vars

\* a request was refused while a run of the job was in the middle of a page
C1_Witness ==
    /\ resp = 400
    /\ "j1" \in DOMAIN jobs
    /\ jobs["j1"].status = PROCESSING
    /\ jobs["j1"].config # Null
    /\ \E a \in Runs("j1") : run["j1"][a].pc = "compose"

C3_ProgressNeverDecreases ==
    [][\A j \in Jobs :
         (/\ j \in DOMAIN jobs
          /\ j \in DOMAIN jobs'
          /\ jobs[j].status = PROCESSING)
         => jobs'[j].progress >= jobs[j].progress]_vars

\* ------------------------------------------------------------------- C4
\* C4: in every reachable state the progress of every job is in 0..100.
C4_ProgressInRange ==
    \A j \in DOMAIN jobs : jobs[j].progress \in 0..100

\* ------------------------------------------------------------------- C5
\* C5: a run that got through all its pages has composed exactly pages
\* 1..N in order; what the exporter is handed is exactly that list; a run
\* that ended without an exception leaves the job (if its row exists)
\* Completed with progress 100; and a job is Completed only after the
\* export of all N pages produced the result file.
C5_ExportsAllPagesThenCompleted ==
    \A j \in Jobs :
        /\ \A a \in Runs(j) :
              LET r == run[j][a] IN
              /\ r.pc \in {"export", "complete"}
                    => r.composed_pages = Pages(r.num_pages)
              /\ r.exported # <<>> => r.exported = <<Pages(r.num_pages)>>
              /\ r.pc = "complete" => r.exported # <<>>
              /\ (/\ r.pc = "done"
                  /\ r.exc = Null
                  /\ r.exported # <<>>
                  /\ j \in DOMAIN jobs)
                    => /\ jobs[j].status = COMPLETED
                       /\ jobs[j].progress = 100
        /\ (j \in DOMAIN jobs /\ jobs[j].status = COMPLETED)
              => /\ \E a \in Runs(j) :
                       /\ run[j][a].pc = "done"
                       /\ run[j][a].exported = <<Pages(jobs[j].num_pages)>>
                 /\ j \in DOMAIN results
                 /\ results[j].pdf
                 /\ results[j].previews = 1..jobs[j].num_pages

\* a two-page run has exported pages 1, 2 and the job is Completed at 100
C5_Witness ==
    /\ "j1" \in DOMAIN jobs
    /\ jobs["j1"].status = COMPLETED
    /\ jobs["j1"].progress = 100
    /\ \E a \in Runs("j1") :
          /\ run["j1"][a].pc = "done"
          /\ run["j1"][a].exported = <<(<<1, 2>>)>>

\* ------------------------------------------------------------------- C6
\* the calls of one page of the loop, the diagram conversion apart
PageCalls ==
    {"extract_page_data", "render_paper", "render_page",
     "extract_diagram_images", "compose_page"}

C6_State ==
    \A j \in Jobs : \A a \in Runs(j) :
        LET r == run[j][a] IN
        /\ r.exc # Null => r.pc \in {"except", "done"}
        /\ (r.pc = "except" /\ r.exc_in \in PageCalls)
              => /\ r.exported = <<>>
                 /\ r.composed_pages = Pages(r.page_num - 1)
        /\ (/\ r.pc = "done"
            /\ r.exc = Error
            /\ a = Len(run[j])
            /\ j \in DOMAIN jobs)
              => /\ jobs[j].status = FAILED
                 /\ jobs[j].error_message = Error

C6_Step ==
    \A j \in Jobs : \A a \in Runs(j) :
        LET r == run[j][a] IN
        /\ r.pc = "except"
              => /\ run'[j][a].pc \in {"except", "done"}
                 /\ run'[j][a].exported = r.exported
                 /\ run'[j][a].num_pages = r.num_pages
                 /\ results' = results \/ j \notin DOMAIN results'
        /\ r.pc = "done" => run'[j][a] = r

\* C6: an exception in a sub-step of a page takes the run to its except
\* clause with the exporter not invoked and only the earlier pages
\* composed; from there the run does nothing but end (no page, no export,
\* no file); and the job, if its row exists, is then Failed with the
\* captured error as error_message.
C6_PageFailureFailsJob == []C6_State /\ [][C6_Step]_vars

\* page 2 of 2 failed in render_page (progress 45 + 10): the job is Failed
\* with the message, nothing was exported, no result directory exists
C6_Witness ==
    /\ "j1" \in DOMAIN jobs
    /\ jobs["j1"].status = FAILED
    /\ jobs["j1"].error_message = Error
    /\ jobs["j1"].progress = 55
    /\ Len(run["j1"]) = 1
    /\ run["j1"][1].pc = "done"
    /\ run["j1"][1].exported = <<>>
    /\ "j1" \notin DOMAIN results

\* ------------------------------------------------------------------- C7
Last(s) == s[Len(s)]

\* _convert_single has a diagram in hand
InConvert(r) == Len(r.converted) < Len(r.extracted)

C7_State ==
    \A j \in Jobs : \A a \in Runs(j) :
        LET r == run[j][a] IN
        /\ (r.pc = "except" /\ InConvert(r))
              => (r.outcomes # <<>> /\ Last(r.outcomes) = "image")
        /\ r.pc = "compose"
              => /\ Len(r.converted) = Len(r.extracted)
                 /\ \A i \in 1..Len(r.converted) :
                       LET d == r.converted[i] IN
                       /\ d.image_hash = r.extracted[i]
                       /\ d.converted_image \in {"stylized", "original"}
                       /\ d.warning # Null <=> d.converted_image = "original"

C7_Step ==
    \A j \in Jobs : \A a \in Runs(j) :
        \A o \in ApiOutcomes \ {"image"} :
            ImagenAttempt(j, a, o)
               => /\ run'[j][a].pc \in {"imagen", "conv_file", "compose"}
                  /\ run'[j][a].exc = Null
                  /\ jobs' = jobs

\* C7: a stylization that yields no image (no key, rate limit, error
\* status, exception, empty answer) never raises: an exception leaves
\* convert_diagrams only after a post that returned an image; every failed
\* post leaves the run in the attempt loop, at the next diagram or at
\* compose, with the job row untouched; and at compose there is one result
\* per cropped diagram, the original image exactly when a warning is set.
C7_StylizationFailureIsAbsorbed == []C7_State /\ [][C7_Step]_vars

\* two diagrams of a page both fell back after three rate-limited or
\* failed posts each, on a cache whose index row has no blob, and the run
\* is at compose
C7_Witness ==
    /\ diagram_cache # <<>>
    /\ blobs = {}
    /\ \E a \in Runs("j1") :
          LET r == run["j1"][a] IN
          /\ r.pc = "compose"
          /\ Len(r.converted) = 2
          /\ \A i \in 1..2 : /\ r.converted[i].warning = "failed"
                             /\ r.converted[i].calls = 3

\* ------------------------------------------------------------------- C8
\* C8: when _convert_single reaches its index insert for a hash that
\* already has an index row (the row's blob was missing, so the image was
\* regenerated), the insert raises nothing, and afterwards the blob exists
\* and the index holds exactly one row for the hash.
C8_StaleIndexSelfHeals ==
    [][\A j \in Jobs : \A a \in Runs(j) :
         LET r == run[j][a] IN
         (/\ r.pc = "insert"
          /\ run'[j][a] # r
          /\ CacheRows(CurrentHash(r)) # {})
         => /\ run'[j][a].exc = Null
            /\ CurrentHash(r) \in blobs'
            /\ Cardinality(RowsOf(diagram_cache', CurrentHash(r))) = 1]_vars

\* ------------------------------------------------------------------- C9
\* C9: with two jobs converting the same hash from an empty cache, no
\* conversion ends in an error, no job is Failed or stuck for it, and the
\* index never holds two rows for one hash.
C9_RaceIsBenign ==
    /\ \A j \in Jobs : \A a \in Runs(j) :
          run[j][a].exc \notin {"IntegrityError", "PendingRollbackError"}
    /\ \A j \in DOMAIN jobs : jobs[j].error_message # "IntegrityError"
    /\ \A h \in Hashes : Cardinality(CacheRows(h)) <= 1

C11_State ==
    \A j \in Jobs : \A a \in Runs(j) :
        LET r == run[j][a] IN
        /\ r.calls <= 3
        /\ r.calls = Len(r.outcomes)
        /\ r.pc = "imagen" => r.calls < 3
        /\ \A i \in 1..Len(r.converted) :
              LET d == r.converted[i] IN
              /\ d.calls <= 3
              /\ d.warning = "failed"
                    => /\ d.converted_image = "original"
                       /\ ~d.from_cache
                       /\ d.calls \in 1..3

C11_Step ==
    \A j \in Jobs : \A a \in Runs(j) :
        \A o \in ApiOutcomes \ {"image"} :
            (run[j][a].calls = 2 /\ ImagenAttempt(j, a, o))
               => /\ run'[j][a].pc # "imagen"
                  /\ run'[j][a].converted =
                        Append(run[j][a].converted,
                               Converted(CurrentHash(run[j][a]), "original",
                                         FALSE, "failed", 3))

\* C11: for one diagram _call_imagen never posts more than 3 times; a third
\* post that fails too ends the loop without an image, and _convert_single
\* then returns the original image with the failure warning (3 posts made).
C11_ThreeAttemptsThenFallback == []C11_State /\ [][C11_Step]_vars

\* one diagram fell back after three posts and the run is at compose
C11_Witness ==
    /\ api_key = "key"
    /\ \E a \in Runs("j1") :
          LET r == run["j1"][a] IN
          /\ r.pc = "compose"
          /\ Len(r.converted) = 1
          /\ r.converted[1] =
                Converted(r.extracted[1], "original", FALSE, "failed", 3)

\* ------------------------------------------------------------------ C12
\* C12: a post that fails otherwise than by a rate-limit answer (an error
\* status, an exception, a 200 without an image) ends the attempt loop: no
\* further post is made for the diagram.
C12_OtherFailureEndsLoop ==
    [][\A j \in Jobs : \A a \in Runs(j) :
         \A o \in {"error", "exception", "empty"} :
             ImagenAttempt(j, a, o) => run'[j][a].pc # "imagen"]_vars

\* ------------------------------------------------------------------ C13
\* the rate-limit answers among the posts made so far for the diagram
RateLimited(outcomes) ==
    Cardinality({i \in 1..Len(outcomes) : outcomes[i] = "rate_limited"})

\* C13: the wait before the retry that follows the first rate-limited post
\* is 2 seconds, and the one that follows the second is 4 seconds.
C13_BackoffTwoThenFour ==
    [][\A j \in Jobs : \A a \in Runs(j) :
         (/\ ImagenAttempt(j, a, "rate_limited")
          /\ run'[j][a].pc = "imagen")
         => Last(run'[j][a].sleeps) =
               (IF RateLimited(run[j][a].outcomes) = 0 THEN 2 ELSE 4)]_vars

C15_FailedKeepsStageLabel ==
    [][\A j \in Jobs : \A a \in Runs(j) :
         (/\ RunExcept(j, a)
          /\ j \in DOMAIN jobs
          /\ jobs'[j].status = FAILED)
         => /\ jobs'[j].current_stage = jobs[j].current_stage
            /\ jobs'[j].error_message = run[j][a].exc]_vars

\* ------------------------------------------------------------------ C16
\* the sub-steps of a page, and those of the diagram conversion
PageSteps == {"extract", "paper", "text", "diagrams", "compose"}

ConvertSteps == {"conv_file", "conv_db", "imagen", "save_blob", "insert"}

C16_State ==
    \A j \in Jobs : \A a \in Runs(j) :
        LET r == run[j][a] IN
        /\ r.pc \in PageSteps \cup ConvertSteps
              => /\ r.page_num \in 1..r.num_pages
                 /\ r.composed_pages = Pages(r.page_num - 1)
        /\ r.pc \in {"diagrams"} \cup ConvertSteps => r.images
        /\ r.pc \in ConvertSteps => r.extracted # <<>>

\* what may follow sub-step pc of page r.page_num in run r
C16_Follows(r, q) ==
    LET same == q.page_num = r.page_num
                    /\ q.composed_pages = r.composed_pages IN
    \/ q.pc = "except"
    \/ CASE r.pc = "queued" ->
               \/ q.pc = "done"
               \/ q.pc = "extract" /\ q.page_num = 1
                     /\ q.composed_pages = <<>>
          [] r.pc = "extract" -> q.pc = "paper" /\ same
          [] r.pc = "paper" -> q.pc = "text" /\ same
          [] r.pc = "text" ->
               q.pc = (IF r.images THEN "diagrams" ELSE "compose") /\ same
          [] r.pc = "diagrams" -> q.pc \in {"conv_file", "compose"} /\ same
          [] r.pc \in ConvertSteps ->
               q.pc \in ConvertSteps \cup {"compose"} /\ same
          [] r.pc = "compose" ->
               /\ q.composed_pages = Append(r.composed_pages, r.page_num)
               /\ IF r.page_num < r.num_pages
                  THEN q.pc = "extract" /\ q.page_num = r.page_num + 1
                  ELSE q.pc = "export"
          [] r.pc = "export" -> q.pc = "complete"
          [] r.pc \in {"complete", "except"} -> q.pc = "done"
          [] OTHER -> FALSE

C16_Step ==
    \A j \in Jobs : \A a \in Runs(j) :
        run'[j][a] # run[j][a] => C16_Follows(run[j][a], run'[j][a])

\* C16: a run takes the pages 1..N in increasing order, one at a time; on
\* each page the sub-steps follow in the order extract layout, render
\* paper, render text, convert diagrams (only when the page has image
\* regions), compose; and a sub-step of page k+1 starts only from the
\* compose of page k.
C16_StrictlySequential == []C16_State /\ [][C16_Step]_vars

\* page 2 of 2 is being composed after its diagram was converted, page 1
\* being the only page composed so far
C16_Witness ==
    \E a \in Runs("j1") :
        LET r == run["j1"][a] IN
        /\ r.pc = "compose"
        /\ r.page_num = 2
        /\ r.num_pages = 2
        /\ r.composed_pages = <<1>>
        /\ r.images
        /\ Len(r.converted) = 1

\* ------------------------------------------------------------------ C17
\* C17: when the last run of a job has ended and the job's row exists, the
\* job is Completed or Failed: no run ends with the job left in Processing.
C17_RunEndsCompletedOrFailed ==
    \A j \in DOMAIN jobs :
        (run[j] # <<>> /\ Last(run[j]).pc = "done")
            => jobs[j].status \in {COMPLETED, FAILED}

\* ------------------------------------------------------------------ C18
\* no external stylization capability is configured
NoApiKey == api_key = "" \/ api_key = "your_api_key_here"

\* neither the blob store nor the index has the image of hash h
CacheMiss(h) ==
    /\ h \notin blobs
    /\ \/ CacheRows(h) = {}
       \/ diagram_cache[FirstRow(h)].converted_path \notin blobs

C18_State ==
    NoApiKey =>
        \A j \in Jobs : \A a \in Runs(j) :
            LET r == run[j][a] IN
            /\ r.pc \notin {"imagen", "save_blob", "insert"}
            /\ r.calls = 0
            /\ \A i \in 1..Len(r.converted) : r.converted[i].calls = 0

C18_Step ==
    \A j \in Jobs : \A a \in Runs(j) :
        LET r == run[j][a] IN
        (/\ NoApiKey
         /\ r.pc \in {"conv_file", "conv_db"}
         /\ CacheMiss(CurrentHash(r))
         /\ run'[j][a] # r)
        => /\ \/ run'[j][a].pc = "conv_db" /\ run'[j][a].converted = r.converted
              \/ run'[j][a].converted =
                    Append(r.converted,
                           Converted(CurrentHash(r), "original", FALSE,
                                     "no_api_key", 0))
           /\ run'[j][a].exc = Null
           /\ run'[j][a].pc \in {"conv_file", "conv_db", "compose"}
           /\ blobs' = blobs
           /\ originals' = originals
           /\ diagram_cache' = diagram_cache

\* C18: with an empty or placeholder API key no post is ever made, and a
\* conversion that misses the cache returns the original image with the
\* no-key warning, raises nothing and leaves the blob store and the index
\* as they were.
C18_NoKeyFallsBackSilently == []C18_State /\ [][C18_Step]_vars

\* with the placeholder key and an index row whose blob is missing, two
\* diagrams were returned as originals with the no-key warning
C18_Witness ==
    /\ api_key = "your_api_key_here"
    /\ diagram_cache # <<>>
    /\ blobs = {}
    /\ \E a \in Runs("j1") :
          LET r == run["j1"][a] IN
          /\ r.pc = "compose"
          /\ Len(r.converted) = 2
          /\ \A i \in 1..2 :
                r.converted[i] =
                    Converted(r.extracted[i], "original", FALSE,
                              "no_api_key", 0)

\* ------------------------------------------------------------------ C19
\* C19: whatever the level and the draws, the segment emitted for a word
\* of at most 2 characters is Normal with the word as its text.
C19_ShortWordsNeverDefective ==
    /\ words = split(text)
    /\ Len(segments) = word_idx
    /\ word_idx <= Len(words)
    /\ \A i \in 1..Len(segments) :
          Len(words[i]) <= 2 => segments[i] = Normal(words[i])

\* at level 1.0 the line "to world" gave a Normal "to" and a defect
C19_Witness ==
    /\ imperfection_level = 100
    /\ words = <<(<<"t", "o">>), (<<"w", "o", "r", "l", "d">>)>>
    /\ Len(segments) = 2
    /\ segments[1] = Normal(<<"t", "o">>)
    /\ segments[2].type # "normal"

\* ------------------------------------------------------------------ C20
helo == <<"h", "e", "l", "o">>

world == <<"w", "o", "r", "l", "d">>

\* C20: at level 0 every segment is Normal with its word as text, whatever
\* the draws; the line "helo world" gives exactly Normal "helo", Normal
\* "world".
C20_LevelZeroInjectsNothing ==
    imperfection_level = 0 =>
        /\ Len(segments) = word_idx
        /\ \A i \in 1..Len(segments) : segments[i] = Normal(words[i])
        /\ (text = Join(<<helo, world>>, <<" ">>) /\ word_idx = Len(words))
              => segments = <<Normal(helo), Normal(world)>>

\* the call on "helo world" at level 0 has returned its two segments
C20_Witness ==
    /\ imperfection_level = 0
    /\ text = Join(<<helo, world>>, <<" ">>)
    /\ word_idx = 2
    /\ segments = <<Normal(helo), Normal(world)>>

\* ------------------------------------------------------------------ C21
\* C21: the paste of a diagram leaves, at every page pixel under a diagram
\* pixel of alpha > 0, the colour of the diagram pixel, whatever was
\* underneath; every other page pixel is as it was.
C21_PasteOverwritesInsideMask ==
    [][compose_page_paste
         => \A k \in 1..Len(composite) :
               IF Covered(diagram, k) /\ diagram.pixels[k - diagram.x].a > 0
               THEN composite'[k].c = diagram.pixels[k - diagram.x].c
               ELSE composite'[k] = composite[k]]_vars

\* ------------------------------------------------------------------ C22
\* the while loop of _draw_lined has ended
LinedDone == line_y >= paper_h - 20

\* |a - b| <= 1
WithinOne(a, b) == a - b \in {-1, 0, 1}

\* C22 as stated: for every height H and every spacing S of the configured
\* range, the number of rule lines drawn differs from floor((H - 60) / S)
\* by at most 1.
C22_LineCountAsStated ==
    LinedDone => WithinOne(rules, (paper_h - 60) \div line_spacing)

\* C22 amended: the same, for a paper at least 40 pixels high and more
\* than 15 pixels wide.
C22_LineCountWithinOne ==
    (LinedDone /\ paper_h >= 40 /\ paper_w > 15)
        => WithinOne(rules, (paper_h - 60) \div line_spacing)

\* a paper 180 high with spacing 20 has its 5 lines (at 60, 80, ..., 140),
\* one fewer than floor(120 / 20)
C22_Witness ==
    /\ LinedDone
    /\ paper_h = 180
    /\ paper_w = 31
    /\ line_spacing = 20
    /\ rules = 5

\* ------------------------------------------------------------------ C23
\* C23: smudging only raises the alpha of inked pixels: a pixel of alpha 0
\* keeps alpha 0, every alpha is at least what it was and at most 255, and
\* no colour changes.
C23_SmudgeOnlyRaisesInkAlpha ==
    \A k \in 1..Len(canvas) :
        /\ smudged[k].c = canvas[k].c
        /\ canvas[k].a = 0 => smudged[k].a = 0
        /\ smudged[k].a >= canvas[k].a
        /\ smudged[k].a <= 255

\* ------------------------------------------------------------------ C24
\* the words and the runs of blanks of a line, in order
RECURSIVE TokensFrom(_, _, _)
TokensFrom(t, cur, acc) ==
    IF t = <<>>
    THEN IF cur = <<>> THEN acc ELSE Append(acc, cur)
    ELSE IF cur = <<>> \/ (Head(t) = " ") = (cur[1] = " ")
    THEN TokensFrom(Tail(t), Append(cur, Head(t)), acc)
    ELSE TokensFrom(Tail(t), <<Head(t)>>, Append(acc, cur))

Tokens(t) == TokensFrom(t, <<>>, <<>>)

\* the original text of a segment
Original(seg) == IF seg.type = "error" THEN seg.correction ELSE seg.text

Originals(segs) == [i \in 1..Len(segs) |-> Original(segs[i])]

\* _apply_imperfections has returned
Returned == word_idx = Len(words)

\* C24 as stated: the returned segments cover every word and every
\* whitespace token of the line in order, one segment per token, the
\* original text of the segment being the token.
C24_CoversWordsAndWhitespace == Returned => Originals(segments) = Tokens(text)

\* C24 amended: the segments cover every word of the line (every maximal run
\* of non-blank characters) in order, one segment per word, the original
\* text of the segment being the word; the whitespace between the words has
\* no segment.
C24_CoversWordsInOrder ==
    /\ Len(segments) = word_idx
    /\ \A i \in 1..Len(segments) : Original(segments[i]) = words[i]
    /\ Returned =>
          /\ Originals(segments) = split(text)
          /\ Originals(segments) =
                 SelectSeq(Tokens(text), LAMBDA tok : tok[1] # " ")

\* "helo  world" (two blanks) has returned a misspelt helo and a struck world
C24_Witness ==
    /\ Returned
    /\ text = helo \o <<" ", " ">> \o world
    /\ Len(segments) = 2
    /\ segments[1].type = "error"
    /\ segments[1].text # helo
    /\ segments[2].type = "strikethrough"

\* ------------------------------------------------------------------ C28
\* C28: every segment of type 'error' has a text different from its
\* correction: _make_spelling_error returns a string that differs from the
\* word, for every word of at least 3 characters, every sub-mutation and
\* every position.
C28_MisspellingDiffersFromWord ==
    \A i \in 1..Len(segments) :
        segments[i].type = "error" => segments[i].text # segments[i].correction

\* ------------------------------------------------------------------ C25
\* run a of job j is about to return a cached image: the blob of the
\* current hash exists, or its index row points to an existing blob
CacheHit(j, a) ==
    LET r == run[j][a] IN
    \/ /\ r.pc = "conv_file"
       /\ CurrentHash(r) \in blobs
    \/ /\ r.pc = "conv_db"
       /\ CacheRows(CurrentHash(r)) # {}
       /\ diagram_cache[FirstRow(CurrentHash(r))].converted_path \in blobs

\* row i of the index is as it was, but for last_accessed
SameButAccess(i) ==
    diagram_cache'[i] =
        [diagram_cache[i] EXCEPT !.last_accessed = diagram_cache'[i].last_accessed]

\* C25: the diagram cache is append-only. No step removes a blob or an index
\* row, or changes a field of a row other than last_accessed; a cache hit
\* (blob or index) posts nothing and leaves the blob store and the index as
\* they were, but for last_accessed of the row it hit; and a row is added
\* for a hash only when the blob of that hash is already written.
C25_Step ==
    /\ blobs \subseteq blobs'
    /\ Len(diagram_cache') \in {Len(diagram_cache), Len(diagram_cache) + 1}
    /\ \A i \in 1..Len(diagram_cache) : SameButAccess(i)
    /\ Len(diagram_cache') > Len(diagram_cache)
          => diagram_cache'[Len(diagram_cache')].converted_path \in blobs
    /\ \A j \in Jobs : \A a \in Runs(j) :
          (CacheHit(j, a) /\ run'[j][a] # run[j][a])
          => LET r == run[j][a]
                 d == run'[j][a].converted[Len(r.converted) + 1] IN
             /\ blobs' = blobs
             /\ Len(diagram_cache') = Len(diagram_cache)
             /\ \A i \in 1..Len(diagram_cache) :
                   diagram_cache'[i] # diagram_cache[i]
                      => i = FirstRow(CurrentHash(r))
             /\ d.from_cache
             /\ d.calls = 0
             /\ r.calls = 0

C25_CacheIsAppendOnly == [][C25_Step]_vars

\* a run posted for a hash, wrote its blob and then added its row to the
\* empty index; its next conversion of that hash hit the cache and left
\* the row as created
C25_Witness ==
    /\ diagram_cache = <<CacheEntry("h1")>>
    /\ "h1" \in blobs
    /\ "h1" \in originals
    /\ \E a \in Runs("j1") :
          LET r == run["j1"][a] IN
          /\ Len(r.converted) = 2
          /\ r.converted[1].calls >= 1
          /\ r.converted[2].from_cache
          /\ r.converted[2].image_hash = "h1"

\* ------------------------------------------------------------------ C26
\* the runs of job j that have not ended
Active(j) == {a \in Runs(j) : run[j][a].pc # "done"}

\* C26: a job has at most one active run of process_document_task at any
\* time, and a run is queued for a job only when every earlier run of that
\* job has ended: a start request while a run is in progress queues nothing.
C26_State == \A j \in Jobs : Cardinality(Active(j)) <= 1

C26_Step ==
    \A j \in Jobs : Len(run'[j]) > Len(run[j]) => Active(j) = {}

C26_AtMostOneActiveRun == []C26_State /\ [][C26_Step]_vars

\* the first run failed, the job was started again, and a third request
\* was refused while the second run was in the middle of a page
C26_Witness ==
    /\ Len(run["j1"]) = 2
    /\ run["j1"][1].pc = "done"
    /\ run["j1"][1].exc # Null
    /\ run["j1"][2].pc = "text"
    /\ resp = 400

\* ------------------------------------------------------------------ C27
\* C27: in every reachable state a job whose status is Completed has no
\* error message, also when it completed on a run started after an earlier
\* run of the job had failed.
C27_CompletedHasNoErrorMessage ==
    \A j \in DOMAIN jobs :
        jobs[j].status = COMPLETED => jobs[j].error_message = Null

\* ------------------------------------------------------------------ C29
\* C29: once delete_job has returned for a job and every run of that job
\* has ended, the job has neither a row nor a result directory.
C29_DeletedJobLeavesNoOutput ==
    \A j \in ids_used :
        (j \notin DOMAIN jobs /\ Active(j) = {})
        => j \notin DOMAIN results

\* ------------------------------------------------------------------ C30
\* C30: results are served only for completed jobs. download_result and
\* get_preview on a job whose status is not Completed answer 400 and send
\* no file, and in every reachable state a job has a result_path if and
\* only if its status is Completed.
C30_State ==
    \A j \in DOMAIN jobs :
        jobs[j].result_path # Null <=> jobs[j].status = COMPLETED

C30_Step ==
    \A j \in DOMAIN jobs :
        (/\ jobs[j].status # COMPLETED
         /\ \/ download_result(j)
            \/ \E page_num \in 1..(ServePages + 1) : get_preview(j, page_num))
        => /\ resp' = 400
           /\ served'[3] = 0

C30_ServedOnlyWhenCompleted == []C30_State /\ [][C30_Step]_vars

\* the export of a run failed after it had saved page 1, and the preview
\* of page 1 of the Failed job was refused
C30_Witness ==
    /\ "j1" \in DOMAIN jobs
    /\ jobs["j1"].status = FAILED
    /\ "j1" \in DOMAIN results
    /\ 1 \in results["j1"].previews
    /\ served = <<"get_preview", "j1", 0>>
    /\ resp = 400

====
